---- MODULE Spec2Model ----
(***************************************************************************)
(* Clara: the concurrent mention-processing orchestrator.                  *)
(*                                                                         *)
(*   src/src/main.rs     Clara::start (control loop, admission semaphore), *)
(*                       Clara::handle_mention (per-mention pipeline)      *)
(*   src/src/twitter.rs  TwitterHandler: listen_mentions,                  *)
(*                       filter_valid_mentions, check_rate_limit,          *)
(*                       send_reply                                        *)
(*   src/src/utils.rs    CacheManager: set, get, exists, cleanup           *)
(*                                                                         *)
(* Time is counted in whole hours: `now` stands for Instant::now() and     *)
(* SystemTime::now(), which the model lets advance between any two steps.  *)
(***************************************************************************)
EXTENDS Integers, Sequences, FiniteSets, Bags, TLC

VARIABLES
    now,          \* the clock, in hours since the process started
    rate_limits,  \* TwitterHandler.rate_limits: user_id -> RateLimit
    rl_lock,      \* owner of the rate_limits mutex, 0 when it is free
    callers,      \* concurrent callers of check_rate_limit: position and locals
    stats,        \* per user: calls returned so far, time of the first call
    last,         \* the call of check_rate_limit that returned last
    admits,       \* bag of <<user_id, time>>, one copy per admitted call
    cache,        \* CacheManager.cache: key -> CacheEntry
    cache_ret,    \* the call of the cache that returned last, and its result
    cache_sets,   \* per key: data and time of the most recent set, time of the first
    loop_pc,      \* position of the control loop of Clara::start
    polled,       \* the batch get_mentions delivered to the last poll
    pending,      \* mentions of the current batch not spawned yet
    spawned,      \* number of tasks spawned so far
    tasks,        \* bag of the spawned tasks that have not ended
    permits,      \* permits available in the semaphore
    replies,      \* bag of the replies the social client has posted
    task_log,     \* the last record a task wrote to the log as it ended
    response,     \* the text handed to VisionAnalyzer::process_response
    annotated,    \* for each line of response, what it was written to say
    keywords,     \* what process_response returned
    story_text,   \* the text handed to StoryGenerator::format_story
    processed     \* what format_story returned

vars == <<now, rate_limits, rl_lock, callers, stats, last, admits,
          cache, cache_ret, cache_sets, loop_pc, polled, pending, spawned,
          tasks, permits, replies, task_log,
          response, annotated, keywords, story_text, processed>>

rateVars == <<rate_limits, rl_lock, callers, stats, last, admits>>
loopVars == <<loop_pc, polled, pending, spawned>>
cacheLog == <<cache_ret, cache_sets>>
taskVars == <<cache, cacheLog, tasks, permits, replies, task_log>>
visionVars == <<response, annotated, keywords>>
storyVars == <<story_text, processed>>
pureVars == <<visionVars, storyVars>>

----------------------------------------------------------------------------
(* Program constants *)

MAX_REQUESTS_PER_DAY == 3

RATE_LIMIT_HOURS == 24

CACHE_TIMEOUT_SECS == 86400

SECS_PER_HOUR == 3600

max_concurrent_requests == 10

(* Bounds of the model *)

\* the clock stops advancing at this hour
MaxTime == 48

\* the clock of the orchestrator specification stops at this hour
MaxLoopTime == 24

\* tasks spawned by the control loop
MaxTasks == 3

\* the semaphore of the model holds at most this many permits
PoolCap == 2

\* mentions in one batch handed to the filter
MaxBatch == 3

\* lines in one response handed to process_response
MaxLines == 5

\* repetitions of the character a story handed to format_story is made of
MaxStoryChars == 282

\* number of concurrent callers of check_rate_limit
NumCallers == 2

\* calls of check_rate_limit made by the callers altogether
MaxCalls == 5

Users == {"alice", "bob"}

Callers == 1..NumCallers

\* the amounts by which the clock advances in one step, in hours
TickHours == {23, 24, 25}

\* the clock of the cache specification stops at this hour
MaxCacheTime == 26

\* the amounts by which the clock of the cache specification advances
CacheTickHours == {12, 13}

----------------------------------------------------------------------------
(* Helpers *)

Put(f, k, v) == [x \in (DOMAIN f) \cup {k} |-> IF x = k THEN v ELSE f[x]]

Restrict(f, S) == [x \in S |-> f[x]]

Empty == <<>>

----------------------------------------------------------------------------
(* Rate limiter: src/src/twitter.rs *)

\* Duration::from_secs(RATE_LIMIT_HOURS * 3600), in hours
RateLimitWindow == (RATE_LIMIT_HOURS * SECS_PER_HOUR) \div SECS_PER_HOUR

\* rate_limits.entry(user_id).or_insert_with(|| RateLimit { count: 0, last_reset: now })
or_insert(rl, user_id, t) ==
    IF user_id \in DOMAIN rl THEN rl
    ELSE Put(rl, user_id, [count |-> 0, last_reset |-> t])

\* now.duration_since(rate_limit.last_reset) >= Duration::from_secs(...);
\* duration_since saturates at zero
window_expired(r, t) ==
    (IF t >= r.last_reset THEN t - r.last_reset ELSE 0) >= RateLimitWindow

\* if expired { rate_limit.count = 0; rate_limit.last_reset = now; }
reset_window_keeps_count(rl, user_id, t) ==
    IF window_expired(rl[user_id], t)
    THEN Put(rl, user_id, [count |-> rl[user_id].count, last_reset |-> t])
    ELSE rl

reset_window(rl, user_id, t) ==
    IF window_expired(rl[user_id], t)
    THEN Put(rl, user_id, [count |-> 0, last_reset |-> t])
    ELSE rl

\* rate_limit.count >= MAX_REQUESTS_PER_DAY
limit_reached_off_by_one(r) == r.count > MAX_REQUESTS_PER_DAY

limit_reached(r) == r.count >= MAX_REQUESTS_PER_DAY

\* the last lines of check_rate_limit: deny without a change, or count += 1
decide_restarts_window(rl, user_id, t) ==
    IF limit_reached(rl[user_id])
    THEN [ok |-> FALSE,
          rl |-> Put(rl, user_id, [count |-> rl[user_id].count, last_reset |-> t])]
    ELSE [ok |-> TRUE,
          rl |-> Put(rl, user_id, [count |-> rl[user_id].count + 1,
                                   last_reset |-> rl[user_id].last_reset])]

decide_uncounted(rl, user_id, t) ==
    IF limit_reached(rl[user_id]) THEN [ok |-> FALSE, rl |-> rl]
    ELSE [ok |-> TRUE, rl |-> rl]

decide(rl, user_id, t) ==
    IF limit_reached(rl[user_id])
    THEN [ok |-> FALSE, rl |-> rl]
    ELSE [ok |-> TRUE,
          rl |-> Put(rl, user_id, [count |-> rl[user_id].count + 1,
                                   last_reset |-> rl[user_id].last_reset])]

\* the whole body of check_rate_limit, run under the mutex
check_rate_limit(rl, user_id, t) ==
    decide(reset_window(or_insert(rl, user_id, t), user_id, t), user_id, t)

\* self.rate_limits.lock().await completes only when nobody holds the mutex
mutex_ignored(lock) == TRUE

mutex_free(lock) == lock = 0

Idle == [pc |-> "idle", user |-> "", t |-> 0, before |-> Empty]

NoCall == [user |-> "", t |-> 0, before |-> Empty, ok |-> FALSE]

Sum(f) ==
    LET RECURSIVE S(_)
        S(D) == IF D = {} THEN 0
                ELSE LET x == CHOOSE y \in D : TRUE IN f[x] + S(D \ {x})
    IN  S(DOMAIN f)

\* calls begun so far: those that returned and those in progress
CallsBegun ==
    Sum([u \in DOMAIN stats |-> stats[u].calls])
        + Cardinality({d \in Callers : callers[d].pc # "idle"})

CallsOf(u) == IF u \in DOMAIN stats THEN stats[u].calls ELSE 0

\* lines 85-92: the lock is taken, the time read, the record looked up or made
RL_Enter(c, u) ==
    /\ callers[c].pc = "idle"
    /\ mutex_free(rl_lock)
    /\ CallsBegun < MaxCalls
    /\ rl_lock' = c
    /\ rate_limits' = or_insert(rate_limits, u, now)
    /\ callers' = [callers EXCEPT ![c] =
           [pc |-> "entered", user |-> u, t |-> now,
            before |-> IF u \in DOMAIN rate_limits THEN <<rate_limits[u]>> ELSE Empty]]
    /\ UNCHANGED <<now, pureVars, stats, last, admits, loopVars, taskVars>>

\* lines 94-97: an expired window is reset
RL_Window(c) ==
    /\ callers[c].pc = "entered"
    /\ rate_limits' = reset_window(rate_limits, callers[c].user, callers[c].t)
    /\ callers' = [callers EXCEPT ![c].pc = "windowed"]
    /\ UNCHANGED <<now, pureVars, rl_lock, stats, last, admits, loopVars, taskVars>>

\* lines 99-105: the call is denied or counted; the guard is dropped on return
RL_Decide(c) ==
    LET u == callers[c].user
        d == decide(rate_limits, u, callers[c].t)
    IN  /\ callers[c].pc = "windowed"
        /\ rate_limits' = d.rl
        /\ callers' = [callers EXCEPT ![c] = Idle]
        /\ last' = [user |-> u, t |-> callers[c].t,
                    before |-> callers[c].before, ok |-> d.ok]
        /\ rl_lock' = IF rl_lock = c THEN 0 ELSE rl_lock
        /\ stats' = Put(stats, u,
               [calls |-> CallsOf(u) + 1,
                first |-> IF u \in DOMAIN stats THEN stats[u].first ELSE callers[c].t])
        /\ admits' = IF d.ok THEN admits (+) SetToBag({<<u, callers[c].t>>}) ELSE admits
        /\ UNCHANGED <<now, pureVars, loopVars, taskVars>>

\* time passes
Tick(d, max) ==
    /\ now + d <= max
    /\ now' = now + d
    /\ UNCHANGED <<rateVars, loopVars, taskVars, pureVars>>


----------------------------------------------------------------------------
(* Text of a mention: a sequence of characters *)

UpperChars == <<"A","B","C","D","E","F","G","H","I","J","K","L","M",
                "N","O","P","Q","R","S","T","U","V","W","X","Y","Z">>

LowerChars == <<"a","b","c","d","e","f","g","h","i","j","k","l","m",
                "n","o","p","q","r","s","t","u","v","w","x","y","z">>

\* char::to_lowercase on the letters A-Z; every other character stays
lower_char(ch) ==
    IF \E i \in 1..Len(UpperChars) : UpperChars[i] = ch
    THEN LowerChars[CHOOSE i \in 1..Len(UpperChars) : UpperChars[i] = ch]
    ELSE ch

\* str::to_lowercase
to_lowercase(text) == [i \in 1..Len(text) |-> lower_char(text[i])]

\* str::contains
contains(text, pat) ==
    \E i \in 0..(Len(text) - Len(pat)) : SubSeq(text, i + 1, i + Len(pat)) = pat

\* "draw for my avatar"
ActivationPhrase ==
    <<"d","r","a","w"," ","f","o","r"," ","m","y"," ","a","v","a","t","a","r">>

\* "please draw for my avatar"
TextLower == <<"p","l","e","a","s","e"," ">> \o ActivationPhrase

\* "please DRAW FOR MY AVATAR"
TextUpper ==
    <<"p","l","e","a","s","e"," ",
      "D","R","A","W"," ","F","O","R"," ","M","Y"," ","A","V","A","T","A","R">>

\* "nice pic!"
TextNicePic == <<"n","i","c","e"," ","p","i","c","!">>

Mention(tweet_id, user_id, text) ==
    [tweet_id |-> tweet_id, user_id |-> user_id, username |-> user_id,
     avatar_url |-> <<"http://x/", user_id, ".png">>, text |-> text]

----------------------------------------------------------------------------
(* Mention filter: src/src/twitter.rs *)

Texts == {TextLower, TextUpper, TextNicePic}

\* text.to_lowercase().contains("draw for my avatar"), for each text of the model
PhraseIn == [text \in Texts |-> contains(to_lowercase(text), ActivationPhrase)]

\* the test of filter_valid_mentions on mention.text
has_phrase_inverted(m) == ~PhraseIn[m.text]

has_phrase_case_sensitive(m) == contains(m.text, ActivationPhrase)

has_phrase(m) == PhraseIn[m.text]

\* filter_valid_mentions: the loop over the batch, from mention i on, with the
\* rate-limit table rl and the mentions kept so far
RECURSIVE filter_from_rate_first(_, _, _, _, _)
filter_from_rate_first(mentions, i, rl, valid, t) ==
    IF i > Len(mentions) THEN [valid |-> valid, rl |-> rl]
    ELSE LET r == check_rate_limit(rl, mentions[i].user_id, t)
         IN  filter_from_rate_first(mentions, i + 1, r.rl,
                 IF r.ok /\ has_phrase(mentions[i]) THEN Append(valid, mentions[i])
                 ELSE valid, t)

RECURSIVE filter_from(_, _, _, _, _)
filter_from(mentions, i, rl, valid, t) ==
    IF i > Len(mentions) THEN [valid |-> valid, rl |-> rl]
    ELSE IF ~has_phrase(mentions[i]) THEN filter_from(mentions, i + 1, rl, valid, t)
    ELSE LET r == check_rate_limit(rl, mentions[i].user_id, t)
         IN  filter_from(mentions, i + 1, r.rl,
                         IF r.ok THEN Append(valid, mentions[i]) ELSE valid, t)

filter_valid_mentions(mentions, rl, t) == filter_from(mentions, 1, rl, <<>>, t)

----------------------------------------------------------------------------
(* Cache: src/src/utils.rs *)

\* Duration::from_secs(CACHE_TIMEOUT_SECS), in hours
CacheTimeout == CACHE_TIMEOUT_SECS \div SECS_PER_HOUR

\* Option<String>
None == <<>>

Some(v) == <<v>>

\* entry.timestamp.elapsed().map(|e| e < timeout).unwrap_or(false): elapsed()
\* fails when the timestamp is later than the clock
is_entry_valid_half_day(entry, t) ==
    /\ t >= entry.timestamp
    /\ t - entry.timestamp < CacheTimeout \div 2

is_entry_valid(entry, t) ==
    /\ t >= entry.timestamp
    /\ t - entry.timestamp < CacheTimeout

\* self.cache.retain(|_, entry| self.is_entry_valid(entry))
cleanup_skipped(c, t) == c

cleanup(c, t) == Restrict(c, {k \in DOMAIN c : is_entry_valid(c[k], t)})

\* CacheManager::set: insert, then cleanup
set_keeps_timestamp(c, key, data, t) ==
    cleanup(Put(c, key, [data |-> data,
                         timestamp |-> IF key \in DOMAIN c THEN c[key].timestamp ELSE t]), t)

set(c, key, data, t) == cleanup(Put(c, key, [data |-> data, timestamp |-> t]), t)

\* CacheManager::get: cleanup, then the data of the entry when it is there and
\* valid; an entry found invalid is removed
get_unchecked(c, key, t) ==
    IF key \in DOMAIN c THEN [val |-> Some(c[key].data), cache |-> c]
    ELSE [val |-> None, cache |-> c]

get(c, key, t) ==
    LET swept == cleanup(c, t)
    IN  IF key \notin DOMAIN swept THEN [val |-> None, cache |-> swept]
        ELSE IF is_entry_valid(swept[key], t)
             THEN [val |-> Some(swept[key].data), cache |-> swept]
             ELSE [val |-> None, cache |-> Restrict(swept, DOMAIN swept \ {key})]

\* CacheManager::exists
exists_unexpired(c, key) == key \in DOMAIN c /\ is_entry_valid(c[key], now)

exists(c, key) == key \in DOMAIN c

NoRet == [op |-> "", key |-> <<>>, val |-> None]

\* a call of set on the shared cache, at the present time
CacheSet(key, data) ==
    /\ cache' = set(cache, key, data, now)
    /\ cache_sets' = Put(cache_sets, key,
           [data |-> data, timestamp |-> now,
            first |-> IF key \in DOMAIN cache_sets THEN cache_sets[key].first ELSE now])
    /\ cache_ret' = [op |-> "set", key |-> key, val |-> None]

\* a call of get
CacheGet(key) ==
    LET g == get(cache, key, now)
    IN  /\ cache' = g.cache
        /\ cache_ret' = [op |-> "get", key |-> key, val |-> g.val]
        /\ UNCHANGED cache_sets

\* a call of exists
CacheExists(key) ==
    /\ cache_ret' = [op |-> "exists", key |-> key, val |-> Some(exists(cache, key))]
    /\ UNCHANGED <<cache, cache_sets>>

----------------------------------------------------------------------------
(* Control loop and tasks: src/src/main.rs *)

NoLog == [tweet_id |-> "", level |-> "", at |-> ""]

\* format!("mention_{}", mention.tweet_id)
cache_key(tweet_id) == <<"mention_", tweet_id>>

\* what the collaborators return for a mention
Keywords(m) == <<"keywords", m.avatar_url>>
ImageData(m) == <<"image", Keywords(m)>>
Story(m) == <<"story", Keywords(m)>>

\* format!("@{} Here's your cat illustration with a story:\n\n{}", username, story)
reply_text_without_story(username, story) ==
    <<"@", username, " Here's your cat illustration with a story:\n\n">>

reply_text(username, story) ==
    <<"@", username, " Here's your cat illustration with a story:\n\n", story>>

\* what the social client receives for one reply: upload_media(image, ..) and
\* send_reply(tweet_id, reply_text, media_id)
Reply(m) ==
    [tweet_id |-> m.tweet_id, text |-> reply_text(m.username, Story(m)),
     image |-> ImageData(m)]

Stages == <<"analyze", "illustrate", "narrate", "reply">>

\* the pipeline of handle_mention: each call is followed by `?`, so a failure
\* returns at once and a success goes on to the next statement
after_stage_ignoring_errors(pc, ok) ==
    CASE pc = "analyze" -> "illustrate"
      [] pc = "illustrate" -> "narrate"
      [] pc = "narrate" -> "reply"
      [] pc = "reply" -> "mark"

after_stage_out_of_order(pc, ok) ==
    IF ~ok THEN "failed"
    ELSE CASE pc = "analyze" -> "narrate"
           [] pc = "narrate" -> "illustrate"
           [] pc = "illustrate" -> "reply"
           [] pc = "reply" -> "mark"

after_stage(pc, ok) ==
    IF ~ok THEN "failed"
    ELSE CASE pc = "analyze" -> "illustrate"
           [] pc = "illustrate" -> "narrate"
           [] pc = "narrate" -> "reply"
           [] pc = "reply" -> "mark"

\* Semaphore::new(self.max_concurrent_requests): 10 permits in Clara::new. The
\* model runs with a pool of PoolCap permits when that is fewer, so that a few
\* tasks exhaust it.
SemaphoreSize ==
    IF PoolCap < max_concurrent_requests THEN PoolCap ELSE max_concurrent_requests

\* sem_clone.acquire().await completes only when a permit is available
can_acquire_always(p) == TRUE

can_acquire(p) == p > 0

\* _permit is dropped when the task's block ends, whatever handle_mention returned
drop_permit_on_success(p, res) == IF res = "err" THEN p ELSE p + 1

drop_permit(p, res) == p + 1

\* if let Err(e) = handle_mention(..).await { error!(..) }: the error is logged
\* inside the task and the control loop goes on
task_boundary_propagates(lp, res) == IF res = "err" THEN "returned" ELSE lp

task_boundary(lp, res) == lp

\* the tasks left when task r ends: a task that ends, with or without an error,
\* ends alone
end_task_aborts_all(ts, r, res) == IF res = "err" THEN EmptyBag ELSE ts (-) SetToBag({r})

end_task(ts, r, res) == ts (-) SetToBag({r})

NewTask(m) == [m |-> m, pc |-> "acquire", done |-> <<>>]

One(r) == SetToBag({r})

InFlight == BagCardinality([r \in {x \in BagToSet(tasks) : x.pc # "acquire"} |-> tasks[r]])

Waiting == BagCardinality([r \in {x \in BagToSet(tasks) : x.pc = "acquire"} |-> tasks[r]])

\* the task's block ends: the permit is dropped, the outcome logged
TaskEnd(r, res, level) ==
    /\ tasks' = end_task(tasks, r, res)
    /\ permits' = drop_permit(permits, res)
    /\ loop_pc' = task_boundary(loop_pc, res)
    /\ task_log' = [tweet_id |-> r.m.tweet_id, level |-> level, at |-> r.pc]
    /\ UNCHANGED <<now, pureVars, rateVars, polled, pending, spawned>>

\* listen_mentions: get_mentions delivered `batch`, the filter ran over it and
\* the mentions it kept are returned
listen_mentions(batch) ==
    LET f == filter_valid_mentions(batch, rate_limits, now)
    IN  /\ rate_limits' = f.rl
        /\ polled' = batch
        /\ pending' = f.valid

\* listen_mentions returns Ok to the control loop
PollOk(batch, maxTasks) ==
    /\ loop_pc = "poll"
    /\ spawned + Len(filter_valid_mentions(batch, rate_limits, now).valid) <= maxTasks
    /\ listen_mentions(batch)
    /\ loop_pc' = IF pending' = <<>> THEN "poll" ELSE "dispatch"
    /\ UNCHANGED <<now, pureVars, rl_lock, callers, stats, last, admits, spawned, taskVars>>

\* Err(e) => { error!(..); sleep(5s).await }: the error is logged, the loop
\* sleeps and then goes round again
poll_failed_returns(lp) == "returned"

poll_failed(lp) == "backoff"

\* listen_mentions returns Err: get_mentions failed
PollErr ==
    /\ loop_pc = "poll"
    /\ loop_pc' = poll_failed(loop_pc)
    /\ UNCHANGED <<now, pureVars, rateVars, polled, pending, spawned, taskVars>>

\* tokio::time::sleep(5s) is over
Backoff ==
    /\ loop_pc = "backoff"
    /\ loop_pc' = "poll"
    /\ UNCHANGED <<now, pureVars, rateVars, polled, pending, spawned, taskVars>>

\* tokio::spawn returns at once: the permit is acquired inside the spawned
\* task, not by the loop
can_spawn_with_permit(p) == p > 0

can_spawn(p) == TRUE

\* one turn of `for mention in mentions`: tokio::spawn
Spawn ==
    /\ loop_pc = "dispatch"
    /\ can_spawn(permits)
    /\ tasks' = tasks (+) One(NewTask(Head(pending)))
    /\ pending' = Tail(pending)
    /\ spawned' = spawned + 1
    /\ loop_pc' = IF Tail(pending) = <<>> THEN "poll" ELSE "dispatch"
    /\ UNCHANGED <<now, pureVars, rateVars, polled, cache, cacheLog, permits, replies, task_log>>

\* let _permit = sem_clone.acquire().await.unwrap()
Acquire(r) ==
    /\ r.pc = "acquire"
    /\ can_acquire(permits)
    /\ permits' = permits - 1
    /\ tasks' = (tasks (-) One(r)) (+) One([r EXCEPT !.pc = "check"])
    /\ UNCHANGED <<now, pureVars, rateVars, loopVars, cache, cacheLog, replies, task_log>>

\* if exists(&cache_key) { return Ok(()) }: a hit returns at once, a miss goes
\* on to the first stage
after_check_ignores_hit(hit) == "analyze"

after_check_inverted(hit) == IF hit THEN "analyze" ELSE "return"

after_check(hit) == IF hit THEN "return" ELSE "analyze"

\* handle_mention, the dedup check
CheckCache(r) ==
    /\ r.pc = "check"
    /\ IF after_check(exists(cache, cache_key(r.m.tweet_id))) = "return"
       THEN /\ TaskEnd(r, "ok", "cached")
            /\ UNCHANGED <<cache, cacheLog, replies>>
       ELSE /\ tasks' = (tasks (-) One(r)) (+) One([r EXCEPT !.pc = "analyze"])
            /\ UNCHANGED <<now, pureVars, rateVars, loopVars, cache, cacheLog, permits, replies, task_log>>

\* one of analyze_image, generate_cat_image, generate_story, send_reply returns
RunStage(r, ok) ==
    LET next == after_stage(r.pc, ok)
    IN  /\ r.pc \in {Stages[i] : i \in 1..Len(Stages)}
        /\ IF next = "failed"
           THEN /\ TaskEnd(r, "err", "error")
                /\ UNCHANGED <<cache, cacheLog, replies>>
           ELSE /\ tasks' = (tasks (-) One(r)) (+)
                        One([r EXCEPT !.pc = next,
                                      !.done = IF ok THEN Append(r.done, r.pc) ELSE r.done])
                /\ replies' = IF r.pc = "reply" /\ ok
                              THEN replies (+) One(Reply(r.m)) ELSE replies
                /\ UNCHANGED <<now, pureVars, rateVars, loopVars, cache, cacheLog, permits, task_log>>

\* cache_manager.lock().await.set(&cache_key, "completed"), then Ok(())
MarkCache(r) ==
    /\ r.pc = "mark"
    /\ CacheSet(cache_key(r.m.tweet_id), "completed")
    /\ TaskEnd(r, "ok", "success")
    /\ UNCHANGED replies

TaskStep ==
    \E r \in BagToSet(tasks) :
        \/ Acquire(r)
        \/ CheckCache(r)
        \/ \E ok \in BOOLEAN : RunStage(r, ok)
        \/ MarkCache(r)

----------------------------------------------------------------------------
(* Vision analyzer: VisionAnalyzer::process_response (src/vision_analyzer.rs) *)

\* a text is a sequence of characters, as in the mention filter

MAX_LABELS == 4

\* MIN_CONFIDENCE (0.75), in thousandths
MIN_CONFIDENCE == 750

\* char::is_whitespace, over the characters the texts are made of
Whitespace == {" ", "\t", "\r", "\n"}

Digits == <<"0", "1", "2", "3", "4", "5", "6", "7", "8", "9">>

is_digit(ch) == \E d \in 1..Len(Digits) : Digits[d] = ch

digit_value(ch) == (CHOOSE d \in 1..Len(Digits) : Digits[d] = ch) - 1

Least(S) == CHOOSE i \in S : \A j \in S : i <= j

Greatest(S) == CHOOSE i \in S : \A j \in S : j <= i

\* str::trim: the text without its leading and trailing whitespace
trim(text) ==
    LET inked == {i \in 1..Len(text) : text[i] \notin Whitespace}
    IN  IF inked = {} THEN <<>> ELSE SubSeq(text, Least(inked), Greatest(inked))

\* str::split_once: the parts before and after the first delimiter
split_once(text, delimiter) ==
    LET at == {i \in 1..Len(text) : text[i] = delimiter}
    IN  IF at = {} THEN None
        ELSE Some(<<SubSeq(text, 1, Least(at) - 1),
                    SubSeq(text, Least(at) + 1, Len(text))>>)

\* str::lines: the text cut at every line feed, a carriage return before the
\* line feed dropped, and no empty line after the last line feed
strip_cr(line) ==
    IF line # <<>> /\ line[Len(line)] = "\r" THEN SubSeq(line, 1, Len(line) - 1) ELSE line

RECURSIVE lines(_)
lines(text) ==
    LET feeds == {i \in 1..Len(text) : text[i] = "\n"}
    IN  IF text = <<>> THEN <<>>
        ELSE IF feeds = {} THEN <<text>>
        ELSE <<strip_cr(SubSeq(text, 1, Least(feeds) - 1))>>
                 \o lines(SubSeq(text, Least(feeds) + 1, Len(text)))

\* the number a string of digits writes
RECURSIVE decimal(_)
decimal(ds) ==
    IF ds = <<>> THEN 0
    ELSE decimal(SubSeq(ds, 1, Len(ds) - 1)) * 10 + digit_value(ds[Len(ds)])

\* str::parse::<f32> on unsigned decimal numerals without an exponent: digits
\* with at most one point and at least one digit; the value in thousandths,
\* the digits after the third decimal dropped, which no comparison with 0.75
\* sees. None stands for Err.
parse_f32(text) ==
    LET points == {i \in 1..Len(text) : text[i] = "."}
        point == IF points = {} THEN Len(text) + 1 ELSE Least(points)
        whole == SubSeq(text, 1, point - 1)
        fraction == SubSeq(text, point + 1, Len(text))
        thousandths == SubSeq(fraction \o <<"0", "0", "0">>, 1, 3)
    IN  IF /\ \A i \in 1..Len(text) : is_digit(text[i]) \/ text[i] = "."
           /\ Cardinality(points) <= 1
           /\ \E i \in 1..Len(text) : is_digit(text[i])
        THEN Some(decimal(whole) * 1000 + decimal(thousandths))
        ELSE None

\* score >= self.config.confidence_threshold
meets_threshold(score) == score >= MIN_CONFIDENCE

\* the body of the loop of process_response: what one line pushes
line_keywords(line) ==
    LET parts == split_once(line, ":")
    IN  IF parts = None THEN <<>>
        ELSE LET label == parts[1][1]
                 confidence == parts[1][2]
                 score == parse_f32(trim(confidence))
             IN  IF score # None /\ meets_threshold(score[1])
                 THEN <<to_lowercase(trim(label))>>
                 ELSE <<>>

RECURSIVE collect_keywords(_)
collect_keywords(ls) ==
    IF ls = <<>> THEN <<>>
    ELSE line_keywords(Head(ls)) \o collect_keywords(Tail(ls))

Unclassified == <<"u", "n", "c", "l", "a", "s", "s", "i", "f", "i", "e", "d">>

\* the fallback for empty results
or_unclassified(ks) == IF ks = <<>> THEN <<Unclassified>> ELSE ks

\* Iterator::take
take_all(s, n) == s

take(s, n) == SubSeq(s, 1, IF n < Len(s) THEN n ELSE Len(s))

process_response(text) ==
    take(or_unclassified(collect_keywords(lines(text))), MAX_LABELS)

NotRun == [done |-> FALSE, value |-> <<>>]

Finished(value) == [done |-> TRUE, value |-> value]

\* the analyze stage hands the text of the backend's response to process_response
ProcessResponse ==
    /\ ~keywords.done
    /\ keywords' = Finished(process_response(response))
    /\ UNCHANGED <<now, rateVars, loopVars, taskVars, response, annotated, storyVars>>

\* the vision analyzer on its own: process_response is applied to responses of
\* up to MaxLines lines, each line one of a few sample lines. A sample carries
\* the text of the line and, apart from it, what the line was written to say:
\* its label and its confidence in thousandths, NoScore when the line has no
\* confidence a number can be read from.
NoScore == -1

Sample(text, label, score) == [text |-> text, label |-> label, score |-> score]

SampleLines == {
    Sample(<<"C", "a", "t", " ", ":", " ", "0", ".", "9">>, <<"c", "a", "t">>, 900),
    Sample(<<"d", "o", "g", ":", "0", ".", "7", "5">>, <<"d", "o", "g">>, 750),
    Sample(<<"r", "a", "t", ":", ".", "7", "4", "9", "\r">>, <<"r", "a", "t">>, 749),
    Sample(<<"o", "w", "l", " ", "1">>, <<"o", "w", "l">>, NoScore),
    Sample(<<"F", "o", "x", ":", "b", ":", "1">>, <<"f", "o", "x">>, NoScore) }

RECURSIVE ResponseText(_)
ResponseText(samples) ==
    IF samples = <<>> THEN <<>>
    ELSE Head(samples).text \o <<"\n">> \o ResponseText(Tail(samples))

Responses == UNION {[1..n -> SampleLines] : n \in 0..MaxLines}

----------------------------------------------------------------------------
(* Story generator: StoryGenerator::format_story (src/src/story.rs) *)

MAX_STORY_LENGTH == 280

\* characters that take more than one byte in UTF-8 are written by their names
EAcute == "U+00E9"
CatSign == "U+732B"

\* char::len_utf8
len_utf8(ch) == CASE ch = EAcute -> 2 [] ch = CatSign -> 3 [] OTHER -> 1

\* String::len: the length in bytes
RECURSIVE len_from(_, _)
len_from(text, i) ==
    IF i > Len(text) THEN 0 ELSE len_utf8(text[i]) + len_from(text, i + 1)

len(text) == len_from(text, 1)

\* processed.replace(|c| c == '@' || c == '#', "")
is_mark(ch) == ch = "@" \/ ch = "#"

is_kept(ch) == ~is_mark(ch)

remove_marks(text) == SelectSeq(text, is_kept)

\* story.trim() and the removal of hashtags and mentions
cleaned(text) == remove_marks(trim(text))

Ellipsis == <<".", ".", ".">>

\* processed.chars().take(max_length - 3).collect::<String>() + "..."
truncate(text, max_length) == take(text, max_length - 3) \o Ellipsis

\* the story fitted within the limit
fit(text, max_length) ==
    IF len(text) > max_length THEN truncate(text, max_length) ELSE text

InvalidStory == [ok |-> FALSE, text |-> <<>>]

OkStory(text) == [ok |-> TRUE, text |-> text]

format_story(text) ==
    LET fitted == fit(cleaned(text), MAX_STORY_LENGTH)
    IN  IF fitted = <<>> THEN InvalidStory ELSE OkStory(fitted)

\* the narrate stage hands the text of the backend's response to format_story
FormatStory ==
    /\ ~processed.done
    /\ processed' = Finished(format_story(story_text))
    /\ UNCHANGED <<now, rateVars, loopVars, taskVars, visionVars, story_text>>

\* the story generator on its own: format_story is applied to stories made of
\* one character repeated up to MaxStoryChars times, between a head and a tail
\* that carry the whitespace and the marks
Repeat(ch, n) == [i \in 1..n |-> ch]

StoryChars == {"a", EAcute, CatSign}

StoryHeads == {<<>>, <<" ", "@">>}

StoryTails == {<<>>, <<"#", "\n">>}

Stories ==
    {head \o Repeat(ch, n) \o tail :
        head \in StoryHeads, ch \in StoryChars, n \in 0..MaxStoryChars, tail \in StoryTails}

----------------------------------------------------------------------------
InitClara ==
    /\ now = 0
    /\ rate_limits = <<>>
    /\ rl_lock = 0
    /\ callers = [c \in Callers |-> Idle]
    /\ stats = <<>>
    /\ last = NoCall
    /\ admits = EmptyBag
    /\ cache = <<>>
    /\ cache_ret = NoRet
    /\ cache_sets = <<>>
    /\ loop_pc = "poll"
    /\ polled = <<>>
    /\ pending = <<>>
    /\ spawned = 0
    /\ tasks = EmptyBag
    /\ permits = SemaphoreSize
    /\ replies = EmptyBag
    /\ task_log = NoLog

\* neither process_response nor format_story has been handed a text
InitVisionIdle == response = <<>> /\ annotated = <<>> /\ keywords = NotRun

InitStoryIdle == story_text = <<>> /\ processed = NotRun

Init == InitClara /\ InitVisionIdle /\ InitStoryIdle

\* a response arrives from the vision backend
InitVision ==
    /\ InitClara /\ InitStoryIdle
    /\ \E samples \in Responses :
           /\ response = ResponseText(samples)
           /\ annotated = samples
    /\ keywords = NotRun

NextVision == ProcessResponse

SpecVision == InitVision /\ [][NextVision]_vars

\* a story arrives from the text backend
InitStory ==
    /\ InitClara /\ InitVisionIdle
    /\ story_text \in Stories
    /\ processed = NotRun

NextStory == FormatStory

SpecStory == InitStory /\ [][NextStory]_vars

\* the cache on its own: a client calls set, get and exists while time passes
CacheKeys == {cache_key("t1"), cache_key("t2")}

CacheData == {"completed", "pending"}

CacheClient ==
    /\ \/ \E key \in CacheKeys, data \in CacheData : CacheSet(key, data)
       \/ \E key \in CacheKeys : CacheGet(key)
       \/ \E key \in CacheKeys : CacheExists(key)
    /\ UNCHANGED <<now, pureVars, rateVars, loopVars, tasks, permits, replies, task_log>>

NextCache ==
    \/ CacheClient
    \/ \E d \in CacheTickHours : Tick(d, MaxCacheTime)

SpecCache == Init /\ [][NextCache]_vars

NextRate ==
    \/ \E c \in Callers, u \in Users : RL_Enter(c, u)
    \/ \E c \in Callers : RL_Window(c)
    \/ \E c \in Callers : RL_Decide(c)
    \/ \E d \in TickHours : Tick(d, MaxTime)

SpecRate == Init /\ [][NextRate]_vars

\* the orchestrator: mentions of two users and two tweets, a few tasks
M1 == Mention("t1", "alice", TextLower)
M2 == Mention("t2", "bob", TextUpper)
M3 == Mention("t3", "bob", TextNicePic)

Batches == {<<M1>>, <<M1, M3, M2>>}

\* the mention filter on its own: listen_mentions is called with every batch of
\* up to MaxBatch mentions while time passes
FilterMentions == {M1, M2, M3}

FilterBatches == UNION {[1..n -> FilterMentions] : n \in 0..MaxBatch}

FilterCall(batch) ==
    /\ listen_mentions(batch)
    /\ UNCHANGED <<now, pureVars, rl_lock, callers, stats, last, admits, loop_pc, spawned, taskVars>>

NextFilter ==
    \/ \E batch \in FilterBatches : FilterCall(batch)
    \/ \E d \in {RateLimitWindow} : Tick(d, MaxLoopTime)

SpecFilter == Init /\ [][NextFilter]_vars

Next ==
    \/ \E b \in Batches : PollOk(b, MaxTasks)
    \/ PollErr
    \/ Backoff
    \/ Spawn
    \/ TaskStep
    \/ \E d \in {CacheTimeout} : Tick(d, MaxLoopTime)

Spec == Init /\ [][Next]_vars

\* the orchestrator when the runtime keeps running the tasks that can run and
\* every collaborator call returns
FairSpec == Spec /\ WF_vars(TaskStep)

\* the orchestrator when the control loop keeps running: the sleep of the
\* backoff ends and tokio::spawn, which does not block, returns
FairLoop == Spec /\ WF_vars(Backoff) /\ WF_vars(Spawn)


----------------------------------------------------------------------------
(* Rate limiter: properties *)

\* number of admitted calls of user u made at a time t with lo <= t < hi
AdmittedIn(u, lo, hi) ==
    LET S == {e \in BagToSet(admits) : e[1] = u /\ e[2] >= lo /\ e[2] < hi}
    IN  BagCardinality([e \in S |-> admits[e]])

InCall(c) == callers[c].pc # "idle"

\* caller c returns from check_rate_limit in this step
Returns(c) == callers[c].pc = "windowed" /\ callers'[c].pc = "idle"

\* C6 as stated: in every state, for every user and every interval of 24 hours
\* [s, s + 24h), whatever its start, at most MAX_REQUESTS_PER_DAY calls of the
\* user made in the interval were admitted.
C6_RollingWindow ==
    \A u \in Users : \A s \in 0..now :
        AdmittedIn(u, s, s + RateLimitWindow) <= MAX_REQUESTS_PER_DAY

\* C6 amended: in every state, for every user with a record, at most
\* MAX_REQUESTS_PER_DAY calls were admitted since the record's window-start (the
\* limit holds per window of the record), and every interval of 24 hours holds at
\* most twice that many admitted calls.
C6_PerWindow ==
    \A u \in Users :
        /\ u \in DOMAIN rate_limits =>
               AdmittedIn(u, rate_limits[u].last_reset, now + 1) <= MAX_REQUESTS_PER_DAY
        /\ \A s \in 0..now :
               AdmittedIn(u, s, s + RateLimitWindow) <= 2 * MAX_REQUESTS_PER_DAY

\* C6 witness: a user has more admitted calls in 24 hours than one window allows
C6_Witness ==
    \E u \in Users : \E s \in 0..now :
        AdmittedIn(u, s, s + RateLimitWindow) > MAX_REQUESTS_PER_DAY

\* C7: in every state, under any interleaving of the callers, every record's
\* count is in 0..MAX_REQUESTS_PER_DAY and equals the number of calls admitted
\* for the user since the record's window-start, and at most one caller, the
\* owner of the mutex, is between taking the lock and returning.
C7_Atomic ==
    /\ \A u \in DOMAIN rate_limits :
           /\ rate_limits[u].count \in 0..MAX_REQUESTS_PER_DAY
           /\ rate_limits[u].count = AdmittedIn(u, rate_limits[u].last_reset, now + 1)
    /\ \A c, d \in Callers : InCall(c) /\ InCall(d) => c = d
    /\ \A c \in Callers : InCall(c) => rl_lock = c

\* C7 witness: one caller is inside the call while another waits for the mutex,
\* on a record that already counts admitted calls
C7_Witness ==
    \E c \in Callers : \E u \in DOMAIN rate_limits :
        /\ InCall(c) /\ callers[c].user = u
        /\ rate_limits[u].count = MAX_REQUESTS_PER_DAY
        /\ last.user = u /\ last.ok

\* C8: for every call of a user that returns less than 24 hours after the user's
\* first call (no window expiry in between), the call is admitted exactly when
\* fewer than MAX_REQUESTS_PER_DAY calls of the user returned before it: the
\* first call and the first three are admitted, the fourth and later are denied.
C8_FirstThree ==
    [][\A c \in Callers : Returns(c) =>
          LET u == callers[c].user
              first == IF u \in DOMAIN stats THEN stats[u].first ELSE callers[c].t
          IN  callers[c].t - first < RateLimitWindow =>
                  (last'.ok <=> CallsOf(u) < MAX_REQUESTS_PER_DAY)]_vars

\* C8 witness: a user's fourth call returned in the first window: three admitted
C8_Witness ==
    \E u \in DOMAIN stats :
        /\ stats[u].calls = MAX_REQUESTS_PER_DAY + 1
        /\ now - stats[u].first < RateLimitWindow
        /\ AdmittedIn(u, 0, now + 1) = MAX_REQUESTS_PER_DAY
        /\ last.user = u /\ ~last.ok

\* C9: every call made more than 24 hours after the window-start of the user's
\* record is admitted, whatever the count was, and leaves the record with
\* count = 1 and window-start = the time of the call.
C9_WindowReset ==
    [][\A c \in Callers : Returns(c) =>
          LET u == callers[c].user
              b == callers[c].before
          IN  (b # Empty /\ callers[c].t - b[1].last_reset > RateLimitWindow) =>
                  /\ last'.ok
                  /\ rate_limits'[u] = [count |-> 1, last_reset |-> callers[c].t]]_vars

\* C9 witness: a call found an exhausted window older than 24 hours, and was admitted
C9_Witness ==
    /\ last.ok /\ last.before # Empty
    /\ last.before[1].count = MAX_REQUESTS_PER_DAY
    /\ last.t - last.before[1].last_reset > RateLimitWindow

\* C10: every call that returns false leaves the user's record as it was when the
\* call began: the count is not incremented and the window-start is not moved.
C10_DeniedUnchanged ==
    [][\A c \in Callers : (Returns(c) /\ ~last'.ok) =>
          /\ callers[c].before # Empty
          /\ rate_limits'[callers[c].user] = callers[c].before[1]
          /\ rate_limits' = rate_limits]_vars

\* C10 witness: a denied call has returned, later than the window-start
C10_Witness ==
    /\ last.user # "" /\ ~last.ok
    /\ last.t > rate_limits[last.user].last_reset

----------------------------------------------------------------------------
(* Mention filter: properties *)

\* the calls of user u that the window of u's record still admits at time t
Room(rl, u, t) ==
    IF u \notin DOMAIN rl \/ window_expired(rl[u], t) THEN MAX_REQUESTS_PER_DAY
    ELSE MAX_REQUESTS_PER_DAY - rl[u].count

\* the positions of the batch with the phrase and the actor u
Asking(batch, u) ==
    {j \in 1..Len(batch) : PhraseIn[batch[j].text] /\ batch[j].user_id = u}

\* the positions of the batch that contain the phrase and whose actor
\* check_rate_limit admits when the batch is taken in order: for each actor u
\* the first room[u] of the positions with the phrase
Admitted(batch, room) ==
    {i \in 1..Len(batch) :
        /\ PhraseIn[batch[i].text]
        /\ Cardinality({j \in 1..(i - 1) :
                           PhraseIn[batch[j].text] /\ batch[j].user_id = batch[i].user_id})
               < room[batch[i].user_id]}

\* the subsequence of the batch at the positions K, in the order of the batch
Subsequence(batch, K) ==
    LET G[i \in 0..Len(batch)] ==
            IF i = 0 THEN <<>>
            ELSE IF i \in K THEN Append(G[i - 1], batch[i]) ELSE G[i - 1]
    IN  G[Len(batch)]

\* C16: in every state, every mention of the sequence that listen_mentions
\* returned contains "draw for my avatar" once its text is put in lower case,
\* whatever batch was polled and whatever the rate-limit table held.
C16_PhraseRequired ==
    \A i \in 1..Len(pending) : PhraseIn[pending[i].text]

\* C16 witness: a batch of a mention without the phrase and one with the phrase
\* in capitals was polled; the first was dropped and the second returned
C16_Witness == polled = <<M3, M2>> /\ pending = <<M2>>

\* C17: every call of the filter returns exactly the mentions of the batch, in
\* the order of the batch, that contain the phrase and whose actor
\* check_rate_limit admitted when called in batch order; each actor's record
\* counts the calls admitted for it and the records of the other actors are
\* as before; the other mentions are dropped and the call still returns a
\* sequence.
C17_ExactSubsequence ==
    [][now' = now =>
          LET room == [u \in Users |-> Room(rate_limits, u, now)]
              K == Admitted(polled', room)
          IN  /\ pending' = Subsequence(polled', K)
              /\ Len(pending') <= Len(polled')
              /\ \A u \in Users :
                     IF Asking(polled', u) = {}
                     THEN (u \in DOMAIN rate_limits' <=> u \in DOMAIN rate_limits)
                          /\ (u \in DOMAIN rate_limits => rate_limits'[u] = rate_limits[u])
                     ELSE rate_limits'[u].count =
                              MAX_REQUESTS_PER_DAY - room[u]
                                  + Cardinality(K \cap Asking(polled', u))]_vars

\* C17 witness: of a batch of three mentions the first and the third were
\* returned, in that order; the second, of an actor who has used up the window,
\* was dropped
C17_Witness ==
    /\ polled = <<M2, M1, M2>> /\ pending = <<M2, M2>>
    /\ rate_limits["alice"].count = MAX_REQUESTS_PER_DAY

----------------------------------------------------------------------------
(* Cache: properties *)

\* hours since the most recent set of key k
SinceSet(k) == now - cache_sets[k].timestamp

\* hours since the entry stored under key k was inserted
Age(k) == now - cache[k].timestamp

\* the call that returned last, its key and its result
Returned(op, key, val) ==
    cache_ret.op = op /\ cache_ret.key = key /\ cache_ret.val = val

\* a call of the cache returns in this step
CacheReturns(op) == cache_ret'.op = op /\ now' = now

\* C11: in every state, for every key whose most recent set(k, v) is less than
\* 24 hours old, a get(k) returns v, whatever calls were made before; a get that
\* returns in such a state returned v; and a set(k, v) leaves under k exactly
\* the entry (v, time of this set), whatever entry k had before.
C11_RoundTrip ==
    /\ [](\A k \in DOMAIN cache_sets :
             SinceSet(k) < CacheTimeout =>
                 get(cache, k, now).val = Some(cache_sets[k].data))
    /\ [][CacheReturns("get") =>
             LET k == cache_ret'.key
             IN  (k \in DOMAIN cache_sets /\ SinceSet(k) < CacheTimeout) =>
                     cache_ret'.val = Some(cache_sets[k].data)]_vars
    /\ [][(CacheReturns("set") /\ cache_sets' # cache_sets) =>
             LET k == cache_ret'.key
             IN  /\ k \in DOMAIN cache'
                 /\ cache'[k] = [data |-> cache_sets'[k].data, timestamp |-> now]]_vars

\* C11 witness: a key first set more than 24 hours ago was set again, to another
\* value, less than 24 hours ago, and a get of it returned that value
C11_Witness ==
    \E k \in DOMAIN cache_sets :
        /\ now - cache_sets[k].first > CacheTimeout
        /\ SinceSet(k) > 0 /\ SinceSet(k) < CacheTimeout
        /\ Returned("get", k, Some("pending"))

\* C12: in every state, for every stored entry inserted more than 24 hours ago, a
\* get of its key returns absent and leaves the key out of the cache; a get that
\* returns in such a state returned absent and removed the entry; and a key that
\* is not stored becomes stored only by a set of that key.
C12_ExpiredAbsent ==
    /\ [](\A k \in DOMAIN cache :
             Age(k) > CacheTimeout =>
                 /\ get(cache, k, now).val = None
                 /\ ~exists(get(cache, k, now).cache, k))
    /\ [][CacheReturns("get") =>
             LET k == cache_ret'.key
             IN  (k \in DOMAIN cache /\ Age(k) > CacheTimeout) =>
                     /\ cache_ret'.val = None
                     /\ ~exists(cache', k)]_vars
    /\ [][\A k \in DOMAIN cache' :
             ~exists(cache, k) => (cache_ret'.op = "set" /\ cache_ret'.key = k)]_vars

\* C12 witness: a get of a key set more than 24 hours ago returned absent, and
\* the key is not stored
C12_Witness ==
    \E k \in DOMAIN cache_sets :
        /\ SinceSet(k) > CacheTimeout
        /\ Returned("get", k, None)
        /\ ~exists(cache, k)

\* C13: a call of exists leaves the cache as it was and returns whether the key
\* is stored; so in every state an entry inserted more than 24 hours ago that is
\* still stored is reported present by exists, while a get of the same key in the
\* same state returns absent.
C13_ExistsNoEvict ==
    /\ [][CacheReturns("exists") =>
             /\ cache' = cache
             /\ cache_ret'.val = Some(cache_ret'.key \in DOMAIN cache)]_vars
    /\ [](\A k \in DOMAIN cache :
             Age(k) > CacheTimeout =>
                 /\ exists(cache, k)
                 /\ get(cache, k, now).val = None)

\* C13 witness: exists returned true for a key whose entry is older than 24 hours
\* and still stored
C13_Witness ==
    \E k \in DOMAIN cache :
        /\ Age(k) > CacheTimeout
        /\ Returned("exists", k, Some(TRUE))

\* C14: in every state, every key whose most recent set is less than 24 hours
\* old is stored, with the entry of that set, so exists returns true for it; and
\* no step, on this key or another, removes an entry that is less than 24 hours
\* old after the step.
C14_NoFalseNegative ==
    /\ [](\A k \in DOMAIN cache_sets :
             SinceSet(k) < CacheTimeout =>
                 /\ exists(cache, k)
                 /\ cache[k] = [data |-> cache_sets[k].data,
                                timestamp |-> cache_sets[k].timestamp])
    /\ [][\A k \in DOMAIN cache :
             now' - cache[k].timestamp < CacheTimeout => exists(cache', k)]_vars

\* C14 witness: a get of one key swept that key, expired, and the other key, set
\* some hours ago and not expired, is still stored
C14_Witness ==
    \E k, j \in DOMAIN cache_sets :
        /\ k # j
        /\ SinceSet(k) > 0 /\ SinceSet(k) < CacheTimeout /\ exists(cache, k)
        /\ SinceSet(j) >= CacheTimeout /\ ~exists(cache, j)
        /\ Returned("get", j, None)

\* C15: when a set or a get returns, of any key, the cache stores no entry, under
\* any key, that was inserted more than 24 hours ago.
C15_FullSweep ==
    [][(CacheReturns("set") \/ CacheReturns("get")) =>
          \A k \in DOMAIN cache' : now - cache'[k].timestamp <= CacheTimeout]_vars

\* C15 witness: a set of one key returned, and the other key, set more than 24
\* hours ago and not read since, is no longer stored
C15_Witness ==
    \E k, j \in DOMAIN cache_sets :
        /\ k # j
        /\ Returned("set", k, None)
        /\ SinceSet(k) = 0
        /\ SinceSet(j) > CacheTimeout /\ ~exists(cache, j)

----------------------------------------------------------------------------
(* Control loop and tasks: properties *)

LoopRunning == {"poll", "dispatch", "backoff"}

\* task r ends with an error in this step
Fails(r) ==
    /\ CopiesIn(r, tasks') < CopiesIn(r, tasks)
    /\ BagCardinality(tasks') < BagCardinality(tasks)
    /\ r.pc \in {Stages[i] : i \in 1..Len(Stages)}

HasMarker(tweet_id) == exists(cache, cache_key(tweet_id))

HasReply(tweet_id) == \E rp \in BagToSet(replies) : rp.tweet_id = tweet_id

\* C1: in every state, however many tasks were spawned, the number of tasks
\* that hold a permit and are inside handle_mention is at most the size of the
\* semaphore, which is at most max_concurrent_requests.
C1_BoundedConcurrency ==
    /\ InFlight <= SemaphoreSize
    /\ InFlight <= max_concurrent_requests

\* C1 witness: every permit is taken and a further task waits for one
C1_Witness == InFlight = SemaphoreSize /\ Waiting > 0 /\ permits = 0

\* C2: in every state, the permits available plus the permits held by the tasks
\* inside handle_mention make up the size of the semaphore; when no task is
\* left every permit is available.
C2_NoTicketLeak ==
    /\ permits + InFlight = SemaphoreSize
    /\ tasks = EmptyBag => permits = SemaphoreSize

\* C2 witness: more tasks than permits have been spawned, all have ended, the
\* last of them with an error, and every permit is back
C2_Witness ==
    /\ tasks = EmptyBag /\ spawned > SemaphoreSize
    /\ task_log.level = "error" /\ permits = SemaphoreSize

\* C3: the control loop is always at one of its own positions (it never
\* returns), and a step in which a task ends with an error leaves the position
\* of the loop and the mentions it still has to spawn unchanged.
C3_ErrorsStayInTask ==
    /\ [](loop_pc \in LoopRunning)
    /\ [][\A r \in BagToSet(tasks) : Fails(r) =>
             /\ loop_pc' = loop_pc /\ pending' = pending /\ spawned' = spawned
             /\ task_log' = [tweet_id |-> r.m.tweet_id, level |-> "error", at |-> r.pc]]_vars

\* C3 witness: a task has failed at the reply, no task is left, and the loop is
\* dispatching a batch
C3_Witness ==
    /\ task_log.level = "error" /\ task_log.at = "reply"
    /\ loop_pc = "dispatch" /\ tasks = EmptyBag

\* C4: every marker in the cache belongs to a mention id for which a reply was
\* posted; a step changes the entry of a key only when a task for that mention
\* id, with analyze, illustrate, narrate and reply all returned successfully,
\* ends in that step; a step in which a task fails leaves the cache unchanged.
C4_MarkerOnlyOnSuccess ==
    /\ [](\A k \in DOMAIN cache : \E rp \in BagToSet(replies) : cache_key(rp.tweet_id) = k)
    /\ [][/\ \A k \in DOMAIN cache' :
               (k \notin DOMAIN cache \/ cache'[k] # cache[k]) =>
                   \E r \in BagToSet(tasks) :
                       /\ r.pc = "mark" /\ cache_key(r.m.tweet_id) = k
                       /\ r.done = Stages
                       /\ CopiesIn(r, tasks') < CopiesIn(r, tasks)
          /\ \A r \in BagToSet(tasks) : Fails(r) => cache' = cache]_vars

\* C4 witness: the task of a mention failed at illustrate and the cache holds
\* the marker of another mention, not one of the failed mention
C4_Witness ==
    /\ task_log.level = "error" /\ task_log.at = "illustrate"
    /\ ~HasMarker(task_log.tweet_id)
    /\ \E k \in DOMAIN cache : k # cache_key(task_log.tweet_id)

\* C5: a step in which a task fails removes that task, returns its permit and
\* changes nothing else (the cache, the replies, the other tasks, the loop and
\* the rate limits stay); a task that waits for a permit is never stuck: a
\* permit is available or is held by a task that is still running; and, the
\* tasks being run fairly, whenever tasks are waiting or in flight a state
\* follows in which all of them have ended.
C5_FailureIsolation ==
    /\ [](Waiting > 0 => (permits > 0 \/ InFlight > 0))
    /\ (tasks # EmptyBag) ~> (tasks = EmptyBag)
    /\ [][\A r \in BagToSet(tasks) : Fails(r) =>
             /\ tasks' = tasks (-) One(r)
             /\ permits' = permits + 1
             /\ cache' = cache /\ replies' = replies
             /\ UNCHANGED <<now, rate_limits, loop_pc, pending, spawned>>]_vars

\* C5 witness: of two mentions spawned from one batch, the task of t1 ended
\* without a reply or a marker, and after it the task of t2 posted its reply
\* and wrote its marker
C5_Witness ==
    /\ tasks = EmptyBag /\ spawned = 2
    /\ task_log = [tweet_id |-> "t2", level |-> "success", at |-> "mark"]
    /\ HasMarker("t2") /\ HasReply("t2")
    /\ ~HasMarker("t1") /\ ~HasReply("t1")

\* C18: the control loop is always polling, dispatching or in backoff; a step
\* in which the poll fails takes the loop to backoff and spawns nothing (tasks,
\* the mentions to spawn and the number spawned stay); from backoff the loop
\* goes nowhere but back to the poll; and, the loop being run fairly, backoff
\* is always followed by a poll and from every state the loop polls again.
C18_PollFailureNotFatal ==
    /\ [](loop_pc \in LoopRunning /\ (loop_pc # "dispatch" => pending = <<>>))
    /\ [][(loop_pc = "poll" /\ loop_pc' # "poll" /\ pending' = <<>>) =>
             /\ loop_pc' = "backoff"
             /\ UNCHANGED <<tasks, spawned, pending, rate_limits, cache>>]_vars
    /\ [][loop_pc = "backoff" => loop_pc' \in {"backoff", "poll"}]_vars
    /\ (loop_pc = "backoff") ~> (loop_pc = "poll")
    /\ []<>(loop_pc = "poll")

\* C18 witness: the poll failed while spawned tasks were running, and the loop
\* is in backoff
C18_Witness == loop_pc = "backoff" /\ spawned > 0 /\ InFlight > 0

\* C19: a step of a task that is at its dedup check while the marker of its
\* mention id is stored ends the task: no stage was run by it, no reply is
\* posted, the cache stays as it is, the permit is returned, the log records a
\* hit and not an error, and the control loop is not touched.
C19_CacheHitShortCircuit ==
    [][\A r \in BagToSet(tasks) :
          (/\ r.pc = "check" /\ HasMarker(r.m.tweet_id)
           /\ CopiesIn(r, tasks') < CopiesIn(r, tasks)) =>
              /\ tasks' = tasks (-) One(r)
              /\ r.done = <<>>
              /\ replies' = replies /\ cache' = cache
              /\ permits' = permits + 1
              /\ task_log' = [tweet_id |-> r.m.tweet_id, level |-> "cached", at |-> "check"]
              /\ UNCHANGED <<loop_pc, pending, spawned, rate_limits>>]_vars

\* C19 witness: a second task for a mention id found the marker left by the
\* first and ended; the mention has one reply and no task is left
C19_Witness ==
    /\ task_log.level = "cached" /\ spawned = 2 /\ tasks = EmptyBag
    /\ BagCardinality(replies) = 1 /\ HasReply(task_log.tweet_id)
    /\ permits = SemaphoreSize

\* the one spawned task, of mention m, has ended with success
OnlyRun(m) ==
    /\ tasks = EmptyBag /\ spawned = 1
    /\ task_log = [tweet_id |-> m.tweet_id, level |-> "success", at |-> "mark"]

\* C20 as stated: when the only task spawned, for mention m, has ended with
\* success, exactly one reply was posted, to m's id, with the illustrator's
\* image and the narrator's text as its text, and the cache holds exactly one
\* entry, under the key "mention:<id>".
C20_AsStated ==
    \A m \in {M1, M2} :
        OnlyRun(m) =>
            /\ replies = One([tweet_id |-> m.tweet_id, text |-> Story(m),
                              image |-> ImageData(m)])
            /\ DOMAIN cache = {<<"mention:", m.tweet_id>>}

\* C20 amended: when the only task spawned, for mention m, has ended with
\* success, exactly one reply was posted, to m's id, with the illustrator's
\* image, and its text is "@<username> Here's your cat illustration with a
\* story:" and a blank line followed by the narrator's text; the cache holds
\* exactly one entry, "completed", under the key "mention_<id>".
C20_EndToEnd ==
    \A m \in {M1, M2} :
        OnlyRun(m) =>
            /\ replies = One([tweet_id |-> m.tweet_id,
                              text |-> <<"@", m.username,
                                         " Here's your cat illustration with a story:\n\n",
                                         Story(m)>>,
                              image |-> ImageData(m)])
            /\ DOMAIN cache = {<<"mention_", m.tweet_id>>}
            /\ cache[<<"mention_", m.tweet_id>>].data = "completed"

\* C20 witness: the task of mention t1, the only one spawned, ran its four
\* stages and ended with success
C20_Witness ==
    /\ OnlyRun(M1) /\ polled = <<M1>>
    /\ HasReply("t1") /\ HasMarker("t1")

\* the stages a task has run so far are the first n of the pipeline
RanFirst(r, n) == r.done = SubSeq(Stages, 1, n)

\* C21: in every state each task has run, with success, the stages before the
\* one it is at and no other: nothing before the dedup check, analyze first,
\* then illustrate, narrate and the reply, and the cache write only after all
\* four; a step that posts a reply is a step of a task at the reply whose
\* analyze, illustrate and narrate returned success; and a step in which a
\* stage fails posts no reply, writes no marker and ends the task.
C21_StageOrder ==
    /\ [](\A r \in BagToSet(tasks) :
             /\ r.pc \in {"acquire", "check", "analyze"} => RanFirst(r, 0)
             /\ r.pc = "illustrate" => RanFirst(r, 1)
             /\ r.pc = "narrate" => RanFirst(r, 2)
             /\ r.pc = "reply" => RanFirst(r, 3)
             /\ r.pc = "mark" => RanFirst(r, 4))
    /\ [][replies' # replies =>
             \E r \in BagToSet(tasks) :
                 /\ r.pc = "reply" /\ r.done = <<"analyze", "illustrate", "narrate">>
                 /\ replies' = replies (+) One(Reply(r.m))
                 /\ CopiesIn([r EXCEPT !.pc = "mark", !.done = Stages], tasks')
                        > CopiesIn([r EXCEPT !.pc = "mark", !.done = Stages], tasks)]_vars
    /\ [][\A r \in BagToSet(tasks) : Fails(r) =>
             /\ replies' = replies /\ cache' = cache
             /\ BagCardinality(tasks') = BagCardinality(tasks) - 1
             /\ \A q \in BagToSet(tasks') : q \in BagToSet(tasks)]_vars

\* C21 witness: a task failed at narrate, after analyze and illustrate, and no
\* reply was posted and no marker written for its mention
C21_Witness ==
    /\ task_log.level = "error" /\ task_log.at = "narrate"
    /\ replies = EmptyBag /\ cache = <<>> /\ tasks = EmptyBag

\* C22: a step of the loop that takes a mention off the batch spawns exactly
\* one task, for that mention, waiting for a permit, and takes no permit; the
\* loop is back at the poll when the last mention of the batch is spawned; a
\* step that brings a batch spawns nothing yet; and, the loop alone being run
\* fairly (no task needs to take a step), dispatching is always followed by
\* polling.
C22_SpawnWithoutWaiting ==
    /\ [][pending' # pending /\ loop_pc = "dispatch" =>
             /\ pending # <<>> /\ pending' = Tail(pending)
             /\ tasks' = tasks (+) One([m |-> Head(pending), pc |-> "acquire", done |-> <<>>])
             /\ spawned' = spawned + 1
             /\ permits' = permits
             /\ loop_pc' = IF Len(pending) = 1 THEN "poll" ELSE "dispatch"]_vars
    /\ [][pending' # pending /\ loop_pc = "poll" =>
             /\ tasks' = tasks /\ spawned' = spawned /\ permits' = permits
             /\ loop_pc' = "dispatch" /\ pending = <<>>]_vars
    /\ [][loop_pc = "dispatch" /\ pending' = pending => loop_pc' = "dispatch"]_vars
    /\ (loop_pc = "dispatch") ~> (loop_pc = "poll")

\* C22 witness: the loop has spawned the two admitted mentions of a batch and
\* is polling again while every permit is held, no task has ended and a task
\* of the batch waits for a permit
C22_Witness ==
    /\ loop_pc = "poll" /\ pending = <<>> /\ polled = <<M1, M3, M2>>
    /\ permits = 0 /\ InFlight = SemaphoreSize /\ Waiting >= 1
    /\ BagCardinality(tasks) = spawned /\ task_log = NoLog

\* replies posted to mention id
RepliesTo(id) ==
    BagCardinality([rp \in {x \in BagToSet(replies) : x.tweet_id = id} |-> replies[rp]])

\* C23: a step of a task at its dedup check while no marker of its mention id
\* is stored takes the task on to analyze and writes nothing to the cache,
\* whatever other tasks of the same id are doing: the check reserves nothing.
\* A step that stores the marker of an id comes after a reply to the id and
\* posts none; and the replies to an id are never more than the tasks spawned,
\* the only bound on them.
C23_CheckThenActRace ==
    /\ [][\A r \in BagToSet(tasks) :
             (/\ r.pc = "check" /\ cache_key(r.m.tweet_id) \notin DOMAIN cache
              /\ CopiesIn(r, tasks') < CopiesIn(r, tasks)) =>
                 /\ tasks' = (tasks (-) One(r)) (+) One([r EXCEPT !.pc = "analyze"])
                 /\ cache' = cache /\ replies' = replies
                 /\ permits' = permits]_vars
    /\ [][\A id \in {"t1", "t2"} :
             (cache_key(id) \notin DOMAIN cache /\ cache_key(id) \in DOMAIN cache') =>
                 RepliesTo(id) >= 1 /\ replies' = replies]_vars
    /\ [](\A id \in {"t1", "t2"} : RepliesTo(id) <= spawned)

\* C23 witness: two tasks were spawned, both for mention t1; both have ended
\* with success and t1 has two replies: the second passed the dedup check
\* before the first wrote the marker
C23_Witness ==
    /\ spawned = 2 /\ tasks = EmptyBag /\ polled = <<M1>>
    /\ RepliesTo("t1") = 2
    /\ task_log = [tweet_id |-> "t1", level |-> "success", at |-> "mark"]

\* C24: a call of the filter leaves the record of every actor that has no
\* mention with the phrase in the batch as it was, and creates none for it; so
\* a batch in which no mention has the phrase leaves the whole rate-limit
\* table unchanged, and nothing is returned for it.
C24_TextMatchFirst ==
    [][now' = now =>
          /\ \A u \in Users :
                 (\A i \in 1..Len(polled') :
                      polled'[i].user_id = u => ~PhraseIn[polled'[i].text]) =>
                     /\ u \in DOMAIN rate_limits' <=> u \in DOMAIN rate_limits
                     /\ u \in DOMAIN rate_limits => rate_limits'[u] = rate_limits[u]
          /\ (\A i \in 1..Len(polled') : ~PhraseIn[polled'[i].text]) =>
                 rate_limits' = rate_limits /\ pending' = <<>>]_vars

\* C24 witness: a batch of mentions without the phrase was filtered while the
\* actor had no record, and the table is still empty
C24_Witness ==
    /\ polled = <<M3, M3>> /\ pending = <<>>
    /\ rate_limits = <<>>

\* mentions of actor u in the sequence ms
MentionsOf(ms, u) == Cardinality({i \in 1..Len(ms) : ms[i].user_id = u})

\* C25: the rate-limit table changes only in a step of the poll, which touches
\* no task, no reply and no cache entry; the poll counts every mention it
\* returns against its actor before the mention is spawned; no step lowers a
\* count except the reset of a window that has expired, so no task that ends,
\* on a cache hit or on an error, gives an admission back; and within the first
\* window the counts add up to the mentions spawned or about to be, whatever
\* became of their tasks.
C25_QuotaNotRefunded ==
    /\ [][rate_limits' # rate_limits =>
             /\ loop_pc = "poll" /\ pending = <<>>
             /\ tasks' = tasks /\ replies' = replies /\ cache' = cache
             /\ spawned' = spawned]_vars
    /\ [][(loop_pc = "poll" /\ pending' # <<>>) =>
             \A u \in Users :
                 MentionsOf(pending', u) > 0 =>
                     /\ u \in DOMAIN rate_limits'
                     /\ rate_limits'[u].count =
                            MAX_REQUESTS_PER_DAY - Room(rate_limits, u, now)
                                + MentionsOf(pending', u)]_vars
    /\ [][\A u \in DOMAIN rate_limits :
             /\ u \in DOMAIN rate_limits'
             /\ \/ rate_limits'[u].count >= rate_limits[u].count
                \/ window_expired(rate_limits[u], now)]_vars
    /\ [](now < RateLimitWindow =>
             Sum([u \in DOMAIN rate_limits |-> rate_limits[u].count])
                 = spawned + Len(pending))

\* C25 witness: mention t1 was delivered three times in one window; it has one
\* reply, the last task ended on the cache hit, and the actor's three
\* admissions are used up
C25_Witness ==
    /\ now < RateLimitWindow /\ spawned = MAX_REQUESTS_PER_DAY /\ tasks = EmptyBag
    /\ rate_limits = [u \in {"alice"} |-> [count |-> MAX_REQUESTS_PER_DAY, last_reset |-> 0]]
    /\ RepliesTo("t1") = 1 /\ task_log.level = "cached"

\* C26: a task waits for a permit only while every permit is held by a task
\* inside handle_mention; and, the tasks being run fairly and every stage
\* returning, whenever tasks exist, waiting or in flight, a state follows in
\* which none of them is left (each has acquired a permit and ended) and every
\* permit is back, however many tasks were spawned.
C26_TaskProgress ==
    /\ []((Waiting > 0 /\ permits = 0) => InFlight = SemaphoreSize)
    /\ (tasks # EmptyBag) ~> (tasks = EmptyBag /\ permits = SemaphoreSize)

\* C26 witness: more tasks than permits were spawned, some had to wait, and
\* all have ended, with success and with errors; every permit is back
C26_Witness ==
    /\ spawned > SemaphoreSize /\ tasks = EmptyBag /\ permits = SemaphoreSize
    /\ task_log.level = "success" /\ BagCardinality(replies) = 1
    /\ ~HasMarker("t1") /\ HasMarker("t2")

----------------------------------------------------------------------------
(* Vision analyzer: properties *)

\* the lines of the response written with a confidence that meets the threshold
is_confident(sample) == sample.score # NoScore /\ sample.score >= MIN_CONFIDENCE

Confident == SelectSeq(annotated, is_confident)

\* C27: whatever the response, process_response returns a non-empty sequence
\* of at most MAX_LABELS labels; every label it keeps is the lower-cased label
\* of a line whose confidence meets the threshold, in the order of the lines;
\* and when no line qualifies it returns exactly the one label "unclassified".
C27_KeywordsBounded ==
    keywords.done =>
        LET ks == keywords.value
        IN  /\ ks # <<>>
            /\ Len(ks) <= MAX_LABELS
            /\ IF Confident = <<>>
               THEN ks = <<Unclassified>>
               ELSE /\ Len(ks) <= Len(Confident)
                    /\ Len(ks) = MAX_LABELS \/ Len(ks) = Len(Confident)
                    /\ \A i \in 1..Len(ks) : ks[i] = Confident[i].label

\* more lines qualify than fit, between lines that do not, and the first
\* MAX_LABELS of them are returned
C27_Witness ==
    /\ keywords.done
    /\ Len(Confident) > MAX_LABELS
    /\ Len(keywords.value) = MAX_LABELS
    /\ \E i \in 1..Len(annotated) : annotated[i].score = MIN_CONFIDENCE

----------------------------------------------------------------------------
(* Story generator: properties *)

ends_with(text, suffix) ==
    /\ Len(text) >= Len(suffix)
    /\ SubSeq(text, Len(text) - Len(suffix) + 1, Len(text)) = suffix

\* C28: whenever format_story returns Ok, the length in bytes of the story it
\* returns is at most MAX_STORY_LENGTH, and when the cleaned input was longer
\* than MAX_STORY_LENGTH the story it returns ends with "...".
C28_BoundedStory ==
    (processed.done /\ processed.value.ok) =>
        /\ len(processed.value.text) <= MAX_STORY_LENGTH
        /\ len(cleaned(story_text)) > MAX_STORY_LENGTH =>
               ends_with(processed.value.text, Ellipsis)

====
